---- MODULE Spec2Model ----
(***************************************************************************)
(* A model of the WebOwl retrieval core: KnowledgeRetriever (vector index  *)
(* over Neo4j chunks, graph walk, hybrid fusion, search facade) and        *)
(* OfflineKnowledgeRetriever (the persisted snapshot of the same index).   *)
(*                                                                         *)
(* Conventions.                                                            *)
(*  - A text is a sequence of tokens; the token " " is white space.        *)
(*  - A score is an integer number of 1/ScoreUnit (ScoreUnit = 1.0), a     *)
(*    weight an integer number of tenths, so a fused score is an integer   *)
(*    number of 1/(10 * ScoreUnit).  Float rounding is not modelled.       *)
(*  - A Python object is a record with a field py; None is the record      *)
(*    [py |-> "None"].  In str-typed fields None is the string "None", in  *)
(*    fields holding a list of strings it is <<"None">>.                   *)
(*  - An operation that can raise returns [raised, value, runs, open]: the *)
(*    exception ("none" when it returns normally), the returned value, the *)
(*    number of queries it issued to the backing store and the number of   *)
(*    sessions or connections it has opened and not closed.                *)
(***************************************************************************)
EXTENDS Integers, Sequences, FiniteSets, TLC

(* ------------------------------ bounds --------------------------------- *)

\* the chunk store holds at most MaxChunks chunks
MaxChunks == 2
\* top_k arguments range over 1..MaxTopK
MaxTopK == 2
\* the text splitter cuts a text into pieces of at most SplitTokens tokens
SplitTokens == 2

\* max_depth arguments range over 1..MaxDepth
MaxDepth == 3

\* 1.0 as a score
ScoreUnit == 60

(* --------------------------- Python values ----------------------------- *)

None == [py |-> "None"]
NoneStr == "None"
NoneList == <<"None">>

NoError == "none"
IndexNotBuilt == "ValueError: Vector index not built. Call build_vector_index() first."
NotLoaded == "ValueError: Retriever not properly loaded. Call load_offline() first."
UnknownMode == "ValueError: Unknown search mode"
KeyError == "KeyError"
AttributeError == "AttributeError"
TypeError == "TypeError"
FileNotFoundError == "FileNotFoundError"
\* what session.run raises while the store does not answer
ServiceUnavailable == "ServiceUnavailable"

\* how a call ends whose sessions are all opened by a with statement, which
\* closes the session however its block is left
Returned(v, n) == [raised |-> NoError, value |-> v, runs |-> n, open |-> 0]
Raised(e, n) == [raised |-> e, value |-> <<>>, runs |-> n, open |-> 0]

\* str(i) and int(s) for the split indices of an index
Digits == <<"0", "1", "2", "3", "4", "5", "6", "7", "8", "9", "10", "11",
            "12", "13", "14", "15">>
str(i) == Digits[i + 1]
int(s) == CHOOSE i \in 0..(Len(Digits) - 1) : Digits[i + 1] = s

(* ------------------------------ texts ---------------------------------- *)

WS == " "

\* str.lower() on a token
lower(w) ==
    CASE w = "Mammals" -> "mammals"
      [] w = "Cats" -> "cats"
      [] OTHER -> w

\* len() of a token
len(w) ==
    CASE w \in {"mammals", "Mammals"} -> 7
      [] w \in {"cats", "Cats", "dogs"} -> 4
      [] w = "are" -> 3
      [] OTHER -> 1

\* text.strip() is non-empty
strip_nonempty(t) == \E i \in DOMAIN t : t[i] # WS

\* Cypher's CONTAINS, case-sensitive: the tokens of the term occur in the
\* text, one after the other
CONTAINS(t, term) ==
    \E i \in 0..(Len(t) - Len(term)) : \A k \in DOMAIN term : t[i + k] = term[k]

(* ---------------------------- chunk store ------------------------------ *)

\* The Neo4j graph, read-only for the retrieval core.  store.chunks lists the
\* Chunk nodes in the order a label scan returns them: the order is the
\* store's and is unrelated to the order of the chunk ids.
ChunkIds == <<"c1", "c2", "c3", "c4">>
TextChoices ==
    { <<>>, <<WS>>, <<"Mammals">>, <<"cats", "are", "mammals">>,
      <<"mammals", "cats", "are">> }

Pages == {"p1", "p2"}
Assets == {"a1", "a2", "a3", "a4", "a5", "a6"}
\* (source)-[:HAS_CHUNK]->(chunk): the Page or Asset owning a chunk
OwnerOf(c) ==
    CASE c = "c1" -> "p1"
      [] c = "c2" -> "a1"
      [] c = "c3" -> NoneStr
      [] OTHER -> "p2"
asset_filename(a) == "a1.pdf"
asset_type(a) == "pdf"

NoRepeat(s) == \A i, j \in DOMAIN s : i # j => s[i] # s[j]

\* the queries a call sends to the store, by what they read
QueryKinds == {"chunks", "details", "walk", "assets"}

\* every store of n chunks: the ids in any scan order, each chunk with any
\* of the texts.  contains and links are the CONTAINS and LINKS_TO
\* relationships, titles the title property of the Page and Asset nodes
\* (None when a node has none), down the kinds of query that fail while the
\* store is partially unavailable.
StoresOf(n) ==
    LET ids == {ChunkIds[i] : i \in 1..MaxChunks}
    IN  { [chunks |-> [i \in 1..n |->
                         [id |-> s[i], text |-> t[i], modality |-> "text"]],
           contains |-> {<<"p1", "a1">>},
           links |-> {},
           titles |-> [u \in Pages \cup Assets |-> NoneStr],
           down |-> {}]
          : s \in {u \in [1..n -> ids] : NoRepeat(u)},
            t \in [1..n -> TextChoices] }
Stores == UNION {StoresOf(n) : n \in 0..MaxChunks}

\* rows of MATCH (c:Chunk {id: chunk_id})
ChunkNode(st, c) ==
    LET i == CHOOSE i \in DOMAIN st.chunks : st.chunks[i].id = c
    IN  st.chunks[i]
HasChunk(st, c) == \E i \in DOMAIN st.chunks : st.chunks[i].id = c

page_url(c) == IF OwnerOf(c) \in Pages THEN OwnerOf(c) ELSE NoneStr
asset_url(c) == IF OwnerOf(c) \in Assets THEN OwnerOf(c) ELSE NoneStr

\* session.run of a query of this kind raises
Down(st, kind) == kind \in st.down

\* Python's "a or b" on optional strings
Or(a, b) == IF a # NoneStr THEN a ELSE b

(* ---------------------------- embeddings ------------------------------- *)

DefaultModel == "all-MiniLM-L6-v2"
SentenceTransformer(m) == [py |-> "SentenceTransformer", model |-> m]

Words(t) == {lower(t[i]) : i \in DOMAIN t} \ {WS}

\* embedder.encode + faiss.normalize_L2: the unit vector of a text under a
\* model, kept as the text it embeds
encode(embedder, t) == [model |-> embedder.model, text |-> t]

\* inner product of two unit vectors of the same model: the cosine, here
\* the share of words the two texts have in common
InnerProduct(u, v) ==
    LET both == Words(u.text) \cap Words(v.text)
        all == Words(u.text) \cup Words(v.text)
    IN  IF all = {} THEN 0 ELSE (ScoreUnit * Cardinality(both)) \div Cardinality(all)

(* --------------------------- text splitter ----------------------------- *)

\* RecursiveCharacterTextSplitter.split_text: consecutive pieces of at most
\* SplitTokens tokens
RECURSIVE split_text(_)
split_text(t) ==
    IF Len(t) = 0 THEN <<>>
    ELSE IF Len(t) <= SplitTokens THEN <<t>>
    ELSE <<SubSeq(t, 1, SplitTokens)>> \o split_text(SubSeq(t, SplitTokens + 1, Len(t)))

(* ---------------------------- vector index ----------------------------- *)

\* faulty variant: a sort that is not stable, equal scores come out reversed
RECURSIVE SortedByScoreDesc_Unstable(_)
SortedByScoreDesc_Unstable(s) ==
    IF s = <<>> THEN <<>>
    ELSE LET h == Head(s)
             rest == SortedByScoreDesc_Unstable(Tail(s))
             before == {i \in DOMAIN rest : rest[i].score >= h.score}
             k == Cardinality(before)
         IN  SubSeq(rest, 1, k) \o <<h>> \o SubSeq(rest, k + 1, Len(rest))

\* sorted(..., key=score, reverse=True): stable, equal scores keep their order
RECURSIVE SortedByScoreDesc(_)
SortedByScoreDesc(s) ==
    IF s = <<>> THEN <<>>
    ELSE LET h == Head(s)
             rest == SortedByScoreDesc(Tail(s))
             before == {i \in DOMAIN rest : rest[i].score > h.score}
             k == Cardinality(before)
         IN  SubSeq(rest, 1, k) \o <<h>> \o SubSeq(rest, k + 1, Len(rest))

\* the (split text, chunk id) pairs of lines 63-72, in chunk order
RECURSIVE SplitsOf(_)
SplitsOf(chunks) ==
    IF chunks = <<>> THEN <<>>
    ELSE LET c == Head(chunks)
             pieces == IF strip_nonempty(c.text)
                       THEN SelectSeq(split_text(c.text), strip_nonempty)
                       ELSE <<>>
         IN  [i \in DOMAIN pieces |-> [text |-> pieces[i], chunk_id |-> c.id]]
             \o SplitsOf(Tail(chunks))

IndexFlatIP(vecs) == [py |-> "IndexFlatIP", vecs |-> vecs]
ntotal(index) == Len(index.vecs)

\* the dictionaries of lines 92-100
IndexToChunkId(splits) == [i \in 0..(Len(splits) - 1) |-> splits[i + 1].chunk_id]
ChunkIdToIndex(splits) ==
    [c \in {splits[i].chunk_id : i \in DOMAIN splits} |->
        LET RECURSIVE Indices(_)
            Indices(i) ==
                IF i > Len(splits) THEN <<>>
                ELSE (IF splits[i].chunk_id = c THEN <<i - 1>> ELSE <<>>)
                     \o Indices(i + 1)
        IN  Indices(1)]

\* KnowledgeRetriever.__init__
NewKnowledgeRetriever ==
    [embedder |-> SentenceTransformer(DefaultModel),
     faiss_index |-> None,
     chunk_id_to_index |-> <<>>,
     index_to_chunk_id |-> <<>>]

\* KnowledgeRetriever.build_vector_index: how the call ends
build_outcome(st) ==
    IF Down(st, "chunks") THEN Raised(ServiceUnavailable, 1) ELSE Returned(<<>>, 1)

\* KnowledgeRetriever.build_vector_index: the retriever after the call
build_vector_index(r, st) ==
    LET chunks == st.chunks
        splits == SplitsOf(chunks)
    IN  IF Down(st, "chunks") THEN r
        ELSE IF chunks = <<>> THEN r
        ELSE IF splits = <<>> THEN r
        ELSE [r EXCEPT
                !.faiss_index =
                    IndexFlatIP([i \in DOMAIN splits |->
                                    encode(r.embedder, splits[i].text)]),
                !.chunk_id_to_index = ChunkIdToIndex(splits),
                !.index_to_chunk_id = IndexToChunkId(splits)]

\* the score FAISS reports beside a missing label
NoScore == 0 - (2 * ScoreUnit)

\* faiss IndexFlatIP.search: the top_k vectors by inner product, equal scores
\* in insertion order; with fewer than top_k vectors the rest is labelled -1
faiss_search(index, qv, top_k) ==
    LET n == ntotal(index)
        scored == [i \in 1..n |->
                    [idx |-> i - 1, score |-> InnerProduct(qv, index.vecs[i])]]
        ranked == SortedByScoreDesc(scored)
    IN  [j \in 1..top_k |->
            IF j <= n THEN ranked[j] ELSE [idx |-> 0 - 1, score |-> NoScore]]

RetrievedChunk(chunk_id, text, modality, score, source_url, source_type, source_title) ==
    [chunk_id |-> chunk_id, text |-> text, modality |-> modality,
     score |-> score, source_url |-> source_url, source_type |-> source_type,
     source_title |-> source_title, context_path |-> NoneList,
     related_assets |-> <<>>]

\* KnowledgeRetriever.semantic_search while the store answers
semantic_found(r, st, query, top_k) ==
    IF r.faiss_index = None THEN Raised(IndexNotBuilt, 0)
    ELSE
    LET hits == faiss_search(r.faiss_index, encode(r.embedder, query), top_k)
    IN  IF \E i \in DOMAIN hits : hits[i].idx \notin DOMAIN r.index_to_chunk_id
        THEN Raised(KeyError, 0)
        ELSE
        LET chunk_ids == [i \in DOMAIN hits |-> r.index_to_chunk_id[hits[i].idx]]
            RECURSIVE Results(_)
            Results(i) ==
                IF i > Len(chunk_ids) THEN <<>>
                ELSE LET c == chunk_ids[i]
                     IN  (IF HasChunk(st, c)
                          THEN <<RetrievedChunk(
                                    c, ChunkNode(st, c).text,
                                    ChunkNode(st, c).modality, hits[i].score,
                                    Or(page_url(c), asset_url(c)),
                                    IF page_url(c) # NoneStr THEN "page" ELSE "asset",
                                    Or(page_url(c),
                                       IF asset_url(c) # NoneStr
                                       THEN asset_filename(asset_url(c))
                                       ELSE NoneStr))>>
                          ELSE <<>>)
                         \o Results(i + 1)
        IN  Returned(Results(1), 1)

\* faulty variant: a failed detail lookup is taken for a lookup that found
\* nothing
detail_lookup_SwallowsStoreError(st, found) ==
    IF found.raised = NoError /\ Down(st, "details")
    THEN Returned(<<>>, 1)
    ELSE found
semantic_search_SwallowsStoreError(r, st, query, top_k) ==
    detail_lookup_SwallowsStoreError(st, semantic_found(r, st, query, top_k))

\* KnowledgeRetriever.semantic_search: the detail lookup of lines 119-130 is
\* the one query of the call, and its exception is not caught
detail_lookup(st, found) ==
    IF found.raised = NoError /\ Down(st, "details")
    THEN Raised(ServiceUnavailable, 1)
    ELSE found
semantic_search(r, st, query, top_k) ==
    detail_lookup(st, semantic_found(r, st, query, top_k))

\* faulty variant: the search adds the query vector to the index
after_search_AddsQuery(r, query) ==
    IF r.faiss_index = None \/ r.embedder = None THEN r
    ELSE [r EXCEPT !.faiss_index =
            IndexFlatIP(Append(@.vecs, encode(r.embedder, query)))]

\* the retriever after semantic_search, or after the offline search: neither
\* assigns an attribute of self or changes the index
after_search(r, query) == r

(* ----------------------------- graph walk ------------------------------ *)

\* a token matched by \w+
IsWord(w) == w \notin {WS, "?"}

\* re.findall(r'\b\w+\b', query.lower())
query_terms(query) ==
    LET lowered == [i \in DOMAIN query |-> lower(query[i])]
    IN  SelectSeq(lowered, IsWord)

\* faulty variant: the last of the longest terms is taken
main_term_LastLongest(query) ==
    LET terms == query_terms(query)
    IN  IF terms = <<>> THEN query
        ELSE <<terms[CHOOSE i \in DOMAIN terms :
                        /\ \A j \in DOMAIN terms : len(terms[j]) <= len(terms[i])
                        /\ \A j \in (i + 1)..Len(terms) : len(terms[j]) < len(terms[i])]>>

\* max(query_terms, key=len) if query_terms else query: max returns the
\* first of the longest terms.  The term is a text: one token, or the whole
\* query when the query has no word.
main_term(query) ==
    LET terms == query_terms(query)
    IN  IF terms = <<>> THEN query
        ELSE <<terms[CHOOSE i \in DOMAIN terms :
                        /\ \A j \in DOMAIN terms : len(terms[j]) <= len(terms[i])
                        /\ \A j \in 1..(i - 1) : len(terms[j]) < len(terms[i])]>>

\* score = 1.0 / (depth + 1)
depth_score(depth) == ScoreUnit \div (depth + 1)

\* the rows of the global scan (lines 179-189), in scan order, as
\* RetrievedChunk (lines 197-208)
RECURSIVE global_scan(_, _)
global_scan(chunks, term) ==
    IF chunks = <<>> THEN <<>>
    ELSE LET c == Head(chunks)
         IN  (IF CONTAINS(c.text, term)
              THEN <<[RetrievedChunk(
                        c.id, c.text, c.modality, depth_score(0),
                        Or(page_url(c.id), asset_url(c.id)),
                        IF page_url(c.id) # NoneStr THEN "page" ELSE "asset",
                        Or(page_url(c.id),
                           IF asset_url(c.id) # NoneStr
                           THEN asset_filename(asset_url(c.id)) ELSE NoneStr))
                      EXCEPT !.context_path = <<>>]>>
              ELSE <<>>)
             \o global_scan(Tail(chunks), term)

\* KnowledgeRetriever.graph_walk_search without start_urls
graph_walk_search(st, query) ==
    IF Down(st, "walk") THEN Raised(ServiceUnavailable, 1)
    ELSE Returned(global_scan(st.chunks, main_term(query)), 1)

(* --------------------------- seeded graph walk ------------------------- *)

\* the relationships a walk may follow, LINKS_TO and CONTAINS
Rels(st) ==
    {[type |-> "LINKS_TO", from |-> e[1], to |-> e[2]] : e \in st.links}
        \cup {[type |-> "CONTAINS", from |-> e[1], to |-> e[2]] : e \in st.contains}

\* MATCH (start:Page {url: url}) for each of $start_urls: the paths of no hop
StartPaths(start_urls) ==
    {[urls |-> <<start_urls[i]>>, rels |-> <<>>] :
        i \in {j \in DOMAIN start_urls : start_urls[j] \in Pages}}

\* faulty variant: the walk remembers only the node it stands on, neither
\* the relationships it has used nor the hops it has made
Extensions_NoMemory(st, path, max_depth) ==
    LET last == path.urls[Len(path.urls)]
    IN  {[urls |-> <<IF r.from = last THEN r.to ELSE r.from>>, rels |-> <<>>] :
            r \in {q \in Rels(st) : q.from = last \/ q.to = last}}

\* faulty variant: the upper bound of the path length is left out
Extensions_NoDepthLimit(st, path, max_depth) ==
    LET last == path.urls[Len(path.urls)]
        used == {path.rels[i] : i \in DOMAIN path.rels}
        usable == {r \in Rels(st) \ used : r.from = last \/ r.to = last}
    IN  {[urls |-> Append(path.urls, IF r.from = last THEN r.to ELSE r.from),
          rels |-> Append(path.rels, r)] : r \in usable}

\* (start)-[:LINKS_TO|CONTAINS*1..max_depth]-(end): the paths one hop longer
\* than path.  A relationship is followed in either direction, at most once
\* in a path (Cypher matches no relationship twice in one pattern), and a
\* path has at most max_depth hops.
Extensions(st, path, max_depth) ==
    LET last == path.urls[Len(path.urls)]
        used == {path.rels[i] : i \in DOMAIN path.rels}
        usable == {r \in Rels(st) \ used : r.from = last \/ r.to = last}
    IN  IF Len(path.rels) >= max_depth THEN {}
        ELSE {[urls |-> Append(path.urls, IF r.from = last THEN r.to ELSE r.from),
               rels |-> Append(path.rels, r)] : r \in usable}

\* every path of 1..max_depth hops that continues one of frontier
RECURSIVE PathsFrom(_, _, _)
PathsFrom(st, frontier, max_depth) ==
    LET next == UNION {Extensions(st, path, max_depth) : path \in frontier}
    IN  IF next = {} THEN {} ELSE next \cup PathsFrom(st, next, max_depth)

\* labels(end)[0]
label(u) == IF u \in Pages THEN "Page" ELSE "Asset"

\* end.title CONTAINS $query_term, a title being one word or null
TitleContains(title, term) == title # NoneStr /\ CONTAINS(<<title>>, term)

\* OPTIONAL MATCH (end)-[:HAS_CHUNK]->(c:Chunk) WHERE ... RETURN DISTINCT ...:
\* the rows of a set of paths.  A path whose end owns no matching chunk
\* yields one row with a null chunk.
walk_rows(st, paths, term) ==
    UNION {
        LET end == path.urls[Len(path.urls)]
            matching == {i \in DOMAIN st.chunks :
                            /\ OwnerOf(st.chunks[i].id) = end
                            /\ \/ CONTAINS(st.chunks[i].text, term)
                               \/ TitleContains(st.titles[end], term)}
            Row(chunk_id, text, modality) ==
                [chunk_id |-> chunk_id, text |-> text, modality |-> modality,
                 source_url |-> end, source_title |-> st.titles[end],
                 source_type |-> label(end), depth |-> Len(path.rels),
                 path_urls |-> path.urls]
        IN  IF matching = {} THEN {Row(NoneStr, NoneList, NoneStr)}
            ELSE {Row(st.chunks[i].id, st.chunks[i].text, st.chunks[i].modality) :
                    i \in matching}
        : path \in paths}

\* the place of a chunk id in ORDER BY c.id, null last
id_order(chunk_id) ==
    IF chunk_id = NoneStr THEN Len(ChunkIds) + 1
    ELSE CHOOSE i \in DOMAIN ChunkIds : ChunkIds[i] = chunk_id

\* the order in which the store yields the nodes of equal rank
node_order(u) ==
    CASE u = "p1" -> 1
      [] u = "p2" -> 2
      [] OTHER -> 3

\* row q comes before row r under ORDER BY depth, c.id; rows equal in both
\* come in the store's order of their paths
RowBefore(q, r) ==
    \/ q.depth < r.depth
    \/ /\ q.depth = r.depth
       /\ \/ id_order(q.chunk_id) < id_order(r.chunk_id)
          \/ /\ id_order(q.chunk_id) = id_order(r.chunk_id)
             /\ \E k \in DOMAIN q.path_urls :
                   /\ \A m \in 1..(k - 1) : q.path_urls[m] = r.path_urls[m]
                   /\ node_order(q.path_urls[k]) < node_order(r.path_urls[k])

\* the rows as the list the query returns
ordered_rows(rows) ==
    [i \in 1..Cardinality(rows) |->
        CHOOSE r \in rows : Cardinality({q \in rows : RowBefore(q, r)}) = i - 1]

\* lines 197-208: the RetrievedChunk of a row
walk_chunk(row) ==
    [RetrievedChunk(row.chunk_id, row.text, row.modality, depth_score(row.depth),
                    row.source_url,
                    IF row.source_type = "Page" THEN "page" ELSE "asset",
                    row.source_title)
        EXCEPT !.context_path = row.path_urls]

\* the list graph_walk_search returns for the paths its query matched
walk_results(st, paths, query) ==
    LET rows == ordered_rows(walk_rows(st, paths, main_term(query)))
    IN  [i \in DOMAIN rows |-> walk_chunk(rows[i])]

\* KnowledgeRetriever.graph_walk_search: start_urls None or [] selects the
\* global search
graph_walk(st, query, start_urls, max_depth) ==
    IF start_urls = <<>> THEN graph_walk_search(st, query)
    ELSE IF Down(st, "walk") THEN Raised(ServiceUnavailable, 1)
    ELSE Returned(walk_results(st, PathsFrom(st, StartPaths(start_urls), max_depth),
                               query), 1)

(* ------------------------------- fusion -------------------------------- *)

\* a list is truthy when it is neither None nor empty
Truthy(l) == l # NoneList /\ l # <<>>

\* faulty variant: every result adds an entry of its own, none is merged
AddScores_NoMerge(combined, chunks, weight) ==
    combined \o [i \in DOMAIN chunks |->
                    [chunk_id |-> chunks[i].chunk_id,
                     score |-> chunks[i].score * weight]]

\* combined_scores[chunk_id] += score * weight, on a dict kept as the list
\* of its items in insertion order
RECURSIVE AddScores(_, _, _)
AddScores(combined, chunks, weight) ==
    IF chunks = <<>> THEN combined
    ELSE LET c == Head(chunks)
             at == {i \in DOMAIN combined : combined[i].chunk_id = c.chunk_id}
             next ==
                IF at = {}
                THEN Append(combined,
                            [chunk_id |-> c.chunk_id, score |-> c.score * weight])
                ELSE [i \in DOMAIN combined |->
                        IF i \in at
                        THEN [combined[i] EXCEPT !.score = @ + c.score * weight]
                        ELSE combined[i]]
         IN  AddScores(next, Tail(chunks), weight)

\* all_chunks[chunk_id] after lines 251-263
all_chunks(semantic_results, graph_results, chunk_id) ==
    LET sem == {i \in DOMAIN semantic_results :
                    semantic_results[i].chunk_id = chunk_id}
        gr == {i \in DOMAIN graph_results :
                    graph_results[i].chunk_id = chunk_id}
        Max(S) == CHOOSE i \in S : \A j \in S : j <= i
        Min(S) == CHOOSE i \in S : \A j \in S : i <= j
        paths == {i \in gr : Truthy(graph_results[i].context_path)}
    IN  IF sem = {} THEN graph_results[Min(gr)]
        ELSE LET chunk == semantic_results[Max(sem)]
             IN  IF paths # {} /\ ~Truthy(chunk.context_path)
                 THEN [chunk EXCEPT
                          !.context_path = graph_results[Min(paths)].context_path]
                 ELSE chunk

\* faulty variant: the sort is left out, the first top_k entries are returned
fuse_Unsorted(semantic_results, graph_results, semantic_weight, graph_weight, top_k) ==
    LET combined_scores ==
            AddScores(AddScores(<<>>, semantic_results, semantic_weight),
                      graph_results, graph_weight)
        sorted_chunks ==
            SubSeq(combined_scores, 1,
                   IF top_k < Len(combined_scores) THEN top_k
                   ELSE Len(combined_scores))
    IN  [i \in DOMAIN sorted_chunks |->
            [all_chunks(semantic_results, graph_results, sorted_chunks[i].chunk_id)
                EXCEPT !.score = sorted_chunks[i].score]]

\* lines 246-278 of hybrid_search: the fusion of two result lists
fuse(semantic_results, graph_results, semantic_weight, graph_weight, top_k) ==
    LET combined_scores ==
            AddScores(AddScores(<<>>, semantic_results, semantic_weight),
                      graph_results, graph_weight)
        ranked == SortedByScoreDesc(combined_scores)
        sorted_chunks == SubSeq(ranked, 1, IF top_k < Len(ranked) THEN top_k ELSE Len(ranked))
    IN  [i \in DOMAIN sorted_chunks |->
            [all_chunks(semantic_results, graph_results, sorted_chunks[i].chunk_id)
                EXCEPT !.score = sorted_chunks[i].score]]

\* hybrid_search after its two searches: sem is the outcome of line 242, gr
\* that of line 243, which runs only when line 242 returned
combine(sem, gr, semantic_weight, graph_weight, top_k) ==
    IF sem.raised # NoError THEN sem
    ELSE IF gr.raised # NoError THEN Raised(gr.raised, sem.runs + gr.runs)
    ELSE Returned(fuse(sem.value, gr.value, semantic_weight, graph_weight, top_k),
                  sem.runs + gr.runs)

\* KnowledgeRetriever.hybrid_search
hybrid_search(r, st, query, semantic_weight, graph_weight, top_k) ==
    combine(semantic_search(r, st, query, top_k * 2),
            graph_walk_search(st, query),
            semantic_weight, graph_weight, top_k)

(* ------------------------ context enrichment --------------------------- *)

\* a set of strings as a list, in the order the store returns them
RECURSIVE Listed(_)
Listed(S) ==
    IF S = {} THEN <<>>
    ELSE LET x == CHOOSE x \in S : TRUE IN <<x>> \o Listed(S \ {x})

\* faulty variant: the LIMIT is left out
related_assets_NoLimit(st, url) ==
    LET found == Listed({e[2] : e \in {f \in st.contains : f[1] = url}})
    IN  [i \in DOMAIN found |->
            [url |-> found[i], type |-> asset_type(found[i]),
             filename |-> asset_filename(found[i])]]

\* MATCH (p:Page {url: $page_url})-[:CONTAINS]->(a:Asset) ... LIMIT 5
related_assets(st, url) ==
    LET found == Listed({e[2] : e \in {f \in st.contains : f[1] = url}})
        rows == [i \in DOMAIN found |->
                    [url |-> found[i], type |-> asset_type(found[i]),
                     filename |-> asset_filename(found[i])]]
    IN  SubSeq(rows, 1, IF Len(rows) < 5 THEN Len(rows) ELSE 5)

\* lines 218-234 of multimodal_search: the enrichment of the semantic
\* outcome sem; a related_assets of None is <<>>
enrich(st, sem, include_assets) ==
    IF sem.raised # NoError THEN sem
    ELSE LET enriched(chunk) == chunk.source_type = "page" /\ include_assets
             pages == {i \in DOMAIN sem.value : enriched(sem.value[i])}
         IN  IF pages # {} /\ Down(st, "assets")
             THEN Raised(ServiceUnavailable, sem.runs + 1)
             ELSE
             Returned(
                [i \in DOMAIN sem.value |->
                    IF i \in pages
                    THEN [sem.value[i] EXCEPT
                            !.related_assets =
                                related_assets(st, sem.value[i].source_url)]
                    ELSE sem.value[i]],
                sem.runs + Cardinality(pages))

\* KnowledgeRetriever.multimodal_search
multimodal_search(r, st, query, include_assets, top_k) ==
    enrich(st, semantic_search(r, st, query, top_k), include_assets)

(* ---------------------------- search facade ---------------------------- *)

\* class SearchMode(Enum)
SearchModeNames == {"SEMANTIC", "GRAPH_WALK", "HYBRID", "MULTIMODAL"}
SearchMode(name) ==
    [py |-> "SearchMode", name |-> name,
     value |-> CASE name = "SEMANTIC" -> "semantic"
                 [] name = "GRAPH_WALK" -> "graph_walk"
                 [] name = "HYBRID" -> "hybrid"
                 [] name = "MULTIMODAL" -> "multimodal"]
Str(s) == [py |-> "str", value |-> s]

\* the keyword arguments the four operations accept besides query, and
\* their defaults
Accepted(mode) ==
    CASE mode = SearchMode("SEMANTIC") -> {"top_k"}
      [] mode = SearchMode("GRAPH_WALK") -> {"start_urls", "max_depth"}
      [] mode = SearchMode("MULTIMODAL") -> {"include_assets", "top_k"}
      [] mode = SearchMode("HYBRID") -> {"semantic_weight", "graph_weight", "top_k"}
Arg(kwargs, name, default) ==
    IF name \in DOMAIN kwargs THEN kwargs[name] ELSE default

\* faulty variant: an unknown mode falls back to the default, hybrid
search_DefaultsToHybrid(r, st, query, mode, kwargs) ==
    IF mode = SearchMode("SEMANTIC")
    THEN semantic_search(r, st, query, Arg(kwargs, "top_k", 5))
    ELSE hybrid_search(r, st, query, 7, 3, Arg(kwargs, "top_k", 10))

\* KnowledgeRetriever.search; a keyword the selected operation does not
\* take is a TypeError of the call
search(r, st, query, mode, kwargs) ==
    IF mode \notin {SearchMode(n) : n \in SearchModeNames}
    THEN Raised(UnknownMode, 0)
    ELSE IF ~(DOMAIN kwargs \subseteq Accepted(mode)) THEN Raised(TypeError, 0)
    ELSE CASE mode = SearchMode("SEMANTIC") ->
                semantic_search(r, st, query, Arg(kwargs, "top_k", 5))
           [] mode = SearchMode("GRAPH_WALK") ->
                graph_walk(st, query, Arg(kwargs, "start_urls", <<>>),
                           Arg(kwargs, "max_depth", 2))
           [] mode = SearchMode("MULTIMODAL") ->
                multimodal_search(r, st, query,
                                  Arg(kwargs, "include_assets", TRUE),
                                  Arg(kwargs, "top_k", 10))
           [] mode = SearchMode("HYBRID") ->
                hybrid_search(r, st, query, Arg(kwargs, "semantic_weight", 7),
                              Arg(kwargs, "graph_weight", 3),
                              Arg(kwargs, "top_k", 10))

(* -------------------------- offline retriever -------------------------- *)

OperationalError == "sqlite3.OperationalError"

\* OfflineKnowledgeRetriever.__init__
NewOfflineKnowledgeRetriever ==
    [embedder |-> None,
     faiss_index |-> None,
     chunk_metadata |-> <<>>,
     index_to_chunk_id |-> <<>>,
     chunk_id_to_index |-> <<>>]

\* the directory index_path with its four files; a missing file is None
NoDirectory ==
    [exists |-> FALSE, faiss_index_bin |-> None, mappings_json |-> None,
     chunks_db |-> None, config_json |-> None]

\* OfflineKnowledgeRetriever.load_from_online_retriever: the offline
\* retriever after the call
load_from_online_retriever(o, online, st) ==
    LET ids == {st.chunks[i].id : i \in DOMAIN st.chunks}
        row(c) ==
            [text |-> ChunkNode(st, c).text,
             modality |-> ChunkNode(st, c).modality,
             page_url |-> page_url(c),
             asset_url |-> asset_url(c),
             asset_filename |-> IF asset_url(c) # NoneStr
                                THEN asset_filename(asset_url(c)) ELSE NoneStr,
             asset_type |-> IF asset_url(c) # NoneStr
                            THEN asset_type(asset_url(c)) ELSE NoneStr]
    IN  [o EXCEPT
            !.embedder = online.embedder,
            !.faiss_index = online.faiss_index,
            !.index_to_chunk_id = online.index_to_chunk_id,
            !.chunk_id_to_index = online.chunk_id_to_index,
            !.chunk_metadata =
                [c \in DOMAIN o.chunk_metadata \cup ids |->
                    IF c \in ids THEN row(c) ELSE o.chunk_metadata[c]]]

\* json.dump of a dict with int keys: the keys become strings
json_dump_int_keys(d) == [k \in {str(i) : i \in DOMAIN d} |-> d[int(k)]]
\* {int(k): v for k, v in loaded.items()}
int_keys(d) == [i \in {int(k) : k \in DOMAIN d} |-> d[str(i)]]

\* the row of table chunks written for one chunk (lines 100-114)
chunk_row(chunk_id, data) ==
    [chunk_id |-> chunk_id, text |-> data.text, modality |-> data.modality,
     source_url |-> Or(data.page_url, data.asset_url),
     source_type |-> IF data.page_url # NoneStr THEN "page" ELSE "asset",
     source_title |-> Or(data.page_url, data.asset_filename)]

\* OfflineKnowledgeRetriever.save_offline: the directory after the call
save_offline(o, d) ==
    LET old == IF d.chunks_db = None THEN <<>> ELSE d.chunks_db.chunks
    IN  [exists |-> TRUE,
         faiss_index_bin |-> IF o.faiss_index # None THEN o.faiss_index
                             ELSE d.faiss_index_bin,
         mappings_json |->
            [py |-> "json",
             index_to_chunk_id |-> json_dump_int_keys(o.index_to_chunk_id),
             chunk_id_to_index |-> o.chunk_id_to_index],
         chunks_db |->
            [py |-> "sqlite", tables |-> {"chunks"},
             chunks |-> [c \in DOMAIN old \cup DOMAIN o.chunk_metadata |->
                            IF c \in DOMAIN o.chunk_metadata
                            THEN chunk_row(c, o.chunk_metadata[c])
                            ELSE old[c]]],
         config_json |->
            [py |-> "json",
             total_chunks |-> Cardinality(DOMAIN o.chunk_metadata),
             index_size |-> Cardinality(DOMAIN o.index_to_chunk_id)]]

\* OfflineKnowledgeRetriever.load_offline: [raised, value, okr], okr the
\* retriever as the call leaves it, also when it raises
load_offline(o, d) ==
    IF ~d.exists THEN [raised |-> FileNotFoundError, value |-> FALSE, okr |-> o]
    ELSE
    LET o1 == [o EXCEPT !.embedder = SentenceTransformer(DefaultModel)]
        o2 == IF d.faiss_index_bin # None
              THEN [o1 EXCEPT !.faiss_index = d.faiss_index_bin]
              ELSE o1
    IN  IF d.mappings_json = None
        THEN [raised |-> FileNotFoundError, value |-> FALSE, okr |-> o2]
        ELSE
        LET o3 == [o2 EXCEPT
                      !.index_to_chunk_id =
                          int_keys(d.mappings_json.index_to_chunk_id),
                      !.chunk_id_to_index = d.mappings_json.chunk_id_to_index]
        IN  IF d.config_json = None
            THEN [raised |-> FileNotFoundError, value |-> FALSE, okr |-> o3]
            ELSE [raised |-> NoError, value |-> TRUE, okr |-> o3]

\* OfflineKnowledgeRetriever.search: [raised, value, runs, open, disk]; runs
\* counts the SELECTs issued, open the connections of line 182 that line 206
\* has not closed, disk is the directory afterwards (sqlite3.connect creates
\* a missing chunks.db)
offline_search(o, d, query, top_k) ==
    IF o.faiss_index = None \/ o.embedder = None
    THEN [raised |-> NotLoaded, value |-> <<>>, runs |-> 0, open |-> 0, disk |-> d]
    ELSE
    LET hits == faiss_search(o.faiss_index, encode(o.embedder, query), top_k)
        known == SelectSeq(hits, LAMBDA h : h.idx \in DOMAIN o.index_to_chunk_id)
    IN  IF ~d.exists
        THEN [raised |-> OperationalError, value |-> <<>>, runs |-> 0, open |-> 0,
              disk |-> d]
        ELSE
        LET d1 == IF d.chunks_db = None
                  THEN [d EXCEPT !.chunks_db =
                            [py |-> "sqlite", tables |-> {}, chunks |-> <<>>]]
                  ELSE d
        IN  IF known # <<>> /\ "chunks" \notin d1.chunks_db.tables
            THEN [raised |-> OperationalError, value |-> <<>>, runs |-> 1, open |-> 1,
                  disk |-> d1]
            ELSE
            LET rows == d1.chunks_db.chunks
                found == SelectSeq(known,
                            LAMBDA h : o.index_to_chunk_id[h.idx] \in DOMAIN rows)
            IN  [raised |-> NoError,
                 value |-> [i \in DOMAIN found |->
                    LET row == rows[o.index_to_chunk_id[found[i].idx]]
                    IN  [chunk_id |-> row.chunk_id, text |-> row.text,
                         modality |-> row.modality,
                         source_url |-> row.source_url,
                         source_type |-> row.source_type,
                         source_title |-> row.source_title,
                         score |-> found[i].score]],
                 runs |-> Len(known),
                 open |-> 0,
                 disk |-> d1]

\* OfflineKnowledgeRetriever.get_stats: [raised, value, runs, open, disk]; the
\* connection of line 211 is closed by line 223, which an exception of a
\* SELECT skips
get_stats(o, d) ==
    IF ~d.exists
    THEN [raised |-> OperationalError, value |-> <<>>, runs |-> 0, open |-> 0,
          disk |-> d]
    ELSE
    LET d1 == IF d.chunks_db = None
              THEN [d EXCEPT !.chunks_db =
                        [py |-> "sqlite", tables |-> {}, chunks |-> <<>>]]
              ELSE d
        rows == d1.chunks_db.chunks
        types == {rows[c].source_type : c \in DOMAIN rows}
    IN  IF "chunks" \notin d1.chunks_db.tables
        THEN [raised |-> OperationalError, value |-> <<>>, runs |-> 1, open |-> 1,
              disk |-> d1]
        ELSE [raised |-> NoError,
              value |->
                [total_chunks |-> Cardinality(DOMAIN rows),
                 unique_sources |->
                    Cardinality({rows[c].source_url : c \in DOMAIN rows} \ {NoneStr}),
                 type_distribution |->
                    [t \in types |->
                        Cardinality({c \in DOMAIN rows : rows[c].source_type = t})],
                 index_size |-> IF o.faiss_index # None THEN ntotal(o.faiss_index)
                                ELSE 0],
              runs |-> 3,
              open |-> 0,
              disk |-> d1]

(* --------------------------- answer_query ------------------------------ *)

\* WebOwlMultiAgentRAG.answer_query, step 2: getattr(SearchMode, search_mode)
\* and retriever.search(query, search_mode_enum, top_k=8).  search_mode names
\* a member of SearchMode or no attribute of it.  The offline retriever's
\* search(query, top_k) receives top_k twice, a TypeError.
answer_query(which, r, st, query, search_mode) ==
    IF search_mode \notin SearchModeNames THEN Raised(AttributeError, 0)
    ELSE IF which = "offline" THEN Raised(TypeError, 0)
    ELSE search(r, st, query, SearchMode(search_mode), [top_k |-> 8])

(* ------------------------------ startup -------------------------------- *)

\* app.py lifespan, startup half: [kr, okr, retriever, web_owl_rag].
\* credentials: NEO4J_URI, NEO4J_USER and NEO4J_PASS are all set;
\* groq_api_key: one of the two key variables is set.  retriever names the
\* object the global holds, "online" (kr), "offline" (okr) or None;
\* web_owl_rag tells whether the global was set.  The driver connects when
\* build_vector_index sends its query.
lifespan(st, d, credentials, groq_api_key) ==
    LET online == credentials /\ build_outcome(st).raised = NoError
        fallback == load_offline(NewOfflineKnowledgeRetriever, d)
        retriever == IF online THEN "online"
                     ELSE IF fallback.raised = NoError THEN "offline"
                     ELSE NoneStr
    IN  [kr |-> build_vector_index(NewKnowledgeRetriever, st),
         okr |-> fallback.okr,
         online |-> online,
         retriever |-> retriever,
         web_owl_rag |-> retriever # NoneStr /\ groq_api_key]

(* ------------------------- conversation context ------------------------ *)

\* the sessions that talk to the service
Sessions == {"s1", "s2"}
\* the entries a session keeps
HistoryLimit == 10
\* the updates followed for one session
MaxLog == 12

\* ConversationManagerAgent.__init__: user_context = {}
NoSessions == [session_id \in {} |-> <<>>]

\* faulty variant: the trim keeps the oldest entries, history[:10]
update_conversation_context_KeepsOldest(user_context_, session_id, query, response, timestamp) ==
    LET known == IF session_id \in DOMAIN user_context_
                 THEN user_context_
                 ELSE (session_id :> [history |-> <<>>, preferences |-> <<>>, topics |-> {}])
                          @@ user_context_
        appended == Append(known[session_id].history,
                           [query |-> query, answer |-> response, timestamp |-> timestamp])
    IN  [known EXCEPT ![session_id].history =
            IF Len(appended) > HistoryLimit
            THEN SubSeq(appended, 1, HistoryLimit)
            ELSE appended]

\* ConversationManagerAgent.update_conversation_context: the user_context
\* after the call
update_conversation_context(user_context_, session_id, query, response, timestamp) ==
    LET known == IF session_id \in DOMAIN user_context_
                 THEN user_context_
                 ELSE (session_id :> [history |-> <<>>, preferences |-> <<>>, topics |-> {}])
                          @@ user_context_
        appended == Append(known[session_id].history,
                           [query |-> query, answer |-> response, timestamp |-> timestamp])
    IN  [known EXCEPT ![session_id].history =
            IF Len(appended) > HistoryLimit
            THEN SubSeq(appended, Len(appended) - HistoryLimit + 1, Len(appended))
            ELSE appended]

\* WebOwlMultiAgentRAG.get_conversation_history
get_conversation_history(user_context_, session_id) ==
    IF session_id \in DOMAIN user_context_
    THEN user_context_[session_id].history
    ELSE <<>>

\* WebOwlMultiAgentRAG.clear_conversation: the user_context after the call
clear_conversation(user_context_, session_id) ==
    IF session_id \in DOMAIN user_context_
    THEN [other \in DOMAIN user_context_ \ {session_id} |-> user_context_[other]]
    ELSE user_context_

\* history: nothing was recorded for any session
NothingRecorded == [session_id \in Sessions |-> [entries |-> <<>>, cleared |-> 0]]

(* --------------------------- state machine ----------------------------- *)

VARIABLES
    store,    \* the chunk store and source graph
    kr,       \* the KnowledgeRetriever
    okr,      \* the OfflineKnowledgeRetriever
    disk,     \* the directory retriever_offline
    loaded,   \* history: load_offline returned True on okr, or okr was
              \* filled by load_from_online_retriever
    ret,      \* the last call: its arguments and how it ended
    walk,     \* the seeded graph walk in progress
    race,     \* a build_vector_index and a semantic_search running together
    user_context,  \* ConversationManagerAgent.user_context
    recorded  \* history: per session, every entry recorded for it and how
              \* many of them came before its last clear_conversation

vars == <<store, kr, okr, disk, loaded, ret, walk, race, user_context, recorded>>

Queries == { <<"mammals", "cats">>, <<"cats", "dogs">> }
TopKs == 1..MaxTopK
Weights == { <<7, 3>>, <<1, 1>> }
ModeNames == SearchModeNames \cup {"KEYWORD"}
ModeValues == {SearchMode(n) : n \in SearchModeNames} \cup {Str("hybrid")}
Files == {"faiss_index.bin", "mappings.json", "config.json"}

Call(op, args, res) == [op |-> op, args |-> args] @@ res

\* no walk is in progress
NoWalk == [pc |-> "idle"]
\* neither thread has started
NoRace == [builder |-> [pc |-> "idle"], reader |-> [pc |-> "idle"]]

Init ==
    /\ store \in Stores
    /\ kr = NewKnowledgeRetriever
    /\ okr = NewOfflineKnowledgeRetriever
    /\ disk = NoDirectory
    /\ loaded = FALSE
    /\ ret = Call("__init__", <<>>, Returned(<<>>, 0))
    /\ walk = NoWalk
    /\ race = NoRace
    /\ user_context = NoSessions
    /\ recorded = NothingRecorded

BuildVectorIndex ==
    /\ kr' = build_vector_index(kr, store)
    /\ ret' = Call("build_vector_index", <<>>, build_outcome(store))
    /\ UNCHANGED <<user_context, recorded, store, okr, disk, loaded, walk, race>>

SemanticSearch ==
    \E query \in Queries, top_k \in TopKs :
        /\ ret' = Call("semantic_search", [query |-> query, top_k |-> top_k],
                       semantic_search(kr, store, query, top_k))
        /\ kr' = after_search(kr, query)
        /\ UNCHANGED <<user_context, recorded, store, okr, disk, loaded, walk, race>>

GraphWalkSearch ==
    \E query \in Queries :
        /\ ret' = Call("graph_walk_search", [query |-> query],
                       graph_walk_search(store, query))
        /\ UNCHANGED <<user_context, recorded, store, kr, okr, disk, loaded, walk, race>>

MultimodalSearch ==
    \E query \in Queries, include_assets \in BOOLEAN, top_k \in TopKs :
        /\ ret' = Call("multimodal_search",
                       [query |-> query, include_assets |-> include_assets,
                        top_k |-> top_k],
                       multimodal_search(kr, store, query, include_assets, top_k))
        /\ UNCHANGED <<user_context, recorded, store, kr, okr, disk, loaded, walk, race>>

HybridSearch ==
    \E query \in Queries, w \in Weights, top_k \in TopKs :
        /\ ret' = Call("hybrid_search",
                       [query |-> query, semantic_weight |-> w[1],
                        graph_weight |-> w[2], top_k |-> top_k],
                       hybrid_search(kr, store, query, w[1], w[2], top_k))
        /\ UNCHANGED <<user_context, recorded, store, kr, okr, disk, loaded, walk, race>>

Search ==
    \E query \in Queries, mode \in ModeValues,
       kwargs \in {<<>>, [top_k |-> MaxTopK]} :
        /\ ret' = Call("search",
                       [query |-> query, mode |-> mode, kwargs |-> kwargs],
                       search(kr, store, query, mode, kwargs))
        /\ UNCHANGED <<user_context, recorded, store, kr, okr, disk, loaded, walk, race>>

AnswerQuery ==
    \E which \in {"online", "offline"}, query \in Queries,
       search_mode \in ModeNames :
        /\ ret' = Call("answer_query",
                       [retriever |-> which, query |-> query,
                        search_mode |-> search_mode],
                       answer_query(which, kr, store, query, search_mode))
        /\ UNCHANGED <<user_context, recorded, store, kr, okr, disk, loaded, walk, race>>

NewOffline ==
    /\ okr' = NewOfflineKnowledgeRetriever
    /\ loaded' = FALSE
    /\ ret' = Call("OfflineKnowledgeRetriever", <<>>, Returned(<<>>, 0))
    /\ UNCHANGED <<user_context, recorded, store, kr, disk, walk, race>>

LoadFromOnlineRetriever ==
    /\ okr' = load_from_online_retriever(okr, kr, store)
    /\ loaded' = TRUE
    /\ ret' = Call("load_from_online_retriever", <<>>, Returned(<<>>, 1))
    /\ UNCHANGED <<user_context, recorded, store, kr, disk, walk, race>>

SaveOffline ==
    /\ disk' = save_offline(okr, disk)
    /\ ret' = Call("save_offline", <<>>, Returned(<<>>, 0))
    /\ UNCHANGED <<user_context, recorded, store, kr, okr, loaded, walk, race>>

LoadOffline ==
    LET res == load_offline(okr, disk)
    IN  /\ okr' = res.okr
        /\ loaded' = (loaded \/ res.raised = NoError)
        /\ ret' = Call("load_offline", [before |-> okr, ready |-> loaded],
                       [raised |-> res.raised, value |-> res.value, runs |-> 0,
                        open |-> 0])
        /\ UNCHANGED <<user_context, recorded, store, kr, disk, walk, race>>

OfflineSearch ==
    \E query \in Queries, top_k \in TopKs :
        LET res == offline_search(okr, disk, query, top_k)
        IN  /\ disk' = res.disk
            /\ ret' = Call("offline_search",
                           [query |-> query, top_k |-> top_k, ready |-> loaded],
                           [raised |-> res.raised, value |-> res.value,
                            runs |-> res.runs, open |-> res.open])
            /\ okr' = after_search(okr, query)
            /\ UNCHANGED <<user_context, recorded, store, kr, loaded, walk, race>>

\* the environment: one of the persisted files is lost
RemoveFile ==
    \E f \in Files :
        /\ disk.exists
        /\ \/ f = "faiss_index.bin" /\ disk.faiss_index_bin # None
              /\ disk' = [disk EXCEPT !.faiss_index_bin = None]
           \/ f = "mappings.json" /\ disk.mappings_json # None
              /\ disk' = [disk EXCEPT !.mappings_json = None]
           \/ f = "config.json" /\ disk.config_json # None
              /\ disk' = [disk EXCEPT !.config_json = None]
        /\ ret' = Call("unlink", [file |-> f], Returned(<<>>, 0))
        /\ UNCHANGED <<user_context, recorded, store, kr, okr, loaded, walk, race>>

GetStats ==
    LET res == get_stats(okr, disk)
    IN  /\ disk' = res.disk
        /\ ret' = Call("get_stats", <<>>,
                       [raised |-> res.raised, value |-> res.value,
                        runs |-> res.runs, open |-> res.open])
        /\ UNCHANGED <<user_context, recorded, store, kr, okr, loaded, walk, race>>

\* the environment: the database file is lost
RemoveDatabase ==
    /\ disk.exists
    /\ disk.chunks_db # None
    /\ disk' = [disk EXCEPT !.chunks_db = None]
    /\ ret' = Call("unlink", [file |-> "chunks.db"], Returned(<<>>, 0))
    /\ UNCHANGED <<user_context, recorded, store, kr, okr, loaded, walk, race>>

\* one exchange is recorded for a session.  The timestamp is the rank of the
\* exchange among those of its session: datetime.now() tells the entries of
\* a session apart and never decreases.
UpdateConversationContext ==
    \E session_id \in Sessions, query \in {<<"mammals", "cats">>},
       response \in {<<"cats", "are", "mammals">>} :
        /\ Len(recorded[session_id].entries) < MaxLog
        /\ LET timestamp == Len(recorded[session_id].entries) + 1
           IN  /\ user_context' = update_conversation_context(
                                      user_context, session_id, query, response, timestamp)
               /\ recorded' = [recorded EXCEPT ![session_id].entries =
                                  Append(@, [query |-> query, answer |-> response,
                                             timestamp |-> timestamp])]
        /\ ret' = Call("update_conversation_context",
                       [session_id |-> session_id, query |-> query],
                       Returned(None, 0))
        /\ UNCHANGED <<store, kr, okr, disk, loaded, walk, race>>

ClearConversation ==
    \E session_id \in Sessions :
        /\ user_context' = clear_conversation(user_context, session_id)
        /\ recorded' = [recorded EXCEPT ![session_id].cleared =
                                           Len(recorded[session_id].entries)]
        /\ ret' = Call("clear_conversation", [session_id |-> session_id],
                       Returned(None, 0))
        /\ UNCHANGED <<store, kr, okr, disk, loaded, walk, race>>

GetConversationHistory ==
    \E session_id \in Sessions :
        /\ ret' = Call("get_conversation_history", [session_id |-> session_id],
                       Returned(get_conversation_history(user_context, session_id), 0))
        /\ UNCHANGED <<user_context, recorded, store, kr, okr, disk, loaded, walk, race>>

\* the application starts: the retriever put in place replaces the one of
\* its kind
Lifespan ==
    \E credentials \in BOOLEAN, groq_api_key \in BOOLEAN :
        LET up == lifespan(store, disk, credentials, groq_api_key)
        IN  /\ kr' = IF up.online THEN up.kr ELSE kr
            /\ okr' = IF up.online THEN okr ELSE up.okr
            /\ loaded' = IF up.online THEN loaded ELSE up.retriever = "offline"
            /\ ret' = Call("lifespan",
                           [credentials |-> credentials,
                            groq_api_key |-> groq_api_key],
                           Returned([retriever |-> up.retriever,
                                     web_owl_rag |-> up.web_owl_rag], 0))
            /\ UNCHANGED <<user_context, recorded, store, disk, walk, race>>

\* the online retriever behind the facade
Next ==
    \/ BuildVectorIndex
    \/ SemanticSearch
    \/ GraphWalkSearch
    \/ MultimodalSearch
    \/ HybridSearch
    \/ Search
    \/ AnswerQuery

Spec == Init /\ [][Next]_vars

\* the export of a built index and its reload by the offline retriever
OfflineNext ==
    \/ BuildVectorIndex
    \/ SemanticSearch
    \/ NewOffline
    \/ LoadFromOnlineRetriever
    \/ SaveOffline
    \/ LoadOffline
    \/ OfflineSearch
    \/ RemoveFile

OfflineSpec == Init /\ [][OfflineNext]_vars

\* the calls that open a session or a connection, over an export whose
\* database may be lost
ConnNext ==
    \/ BuildVectorIndex
    \/ SemanticSearch
    \/ GraphWalkSearch
    \/ MultimodalSearch
    \/ LoadFromOnlineRetriever
    \/ SaveOffline
    \/ OfflineSearch
    \/ GetStats
    \/ RemoveDatabase

ConnSpec == Init /\ [][ConnNext]_vars

\* the store holds blank chunks or worded ones, and answers every query or
\* none
StartupInit ==
    /\ store \in
          { [s EXCEPT !.down = d]
            : s \in {u \in Stores :
                        \A i \in DOMAIN u.chunks :
                            u.chunks[i].text \in {<<WS>>, <<"Mammals">>}},
              d \in {{}, QueryKinds} }
    /\ kr = NewKnowledgeRetriever
    /\ okr = NewOfflineKnowledgeRetriever
    /\ disk = NoDirectory
    /\ loaded = FALSE
    /\ ret = Call("__init__", <<>>, Returned(<<>>, 0))
    /\ walk = NoWalk
    /\ race = NoRace
    /\ user_context = NoSessions
    /\ recorded = NothingRecorded

\* an export made by an earlier run, files lost since, and the startup
StartupNext ==
    \/ BuildVectorIndex
    \/ LoadFromOnlineRetriever
    \/ SaveOffline
    \/ RemoveFile
    \/ Lifespan

StartupSpec == StartupInit /\ [][StartupNext]_vars

(* ----------------- the seeded graph walk, hop by hop ------------------- *)

\* source graphs for the walk: two pages that may link to each other in a
\* cycle and may both contain the asset a1, whose title may match a query;
\* the text of the first page's chunk may match, the other chunks' do not
WalkTexts == { <<"Mammals">>, <<"cats", "are", "mammals">> }
WalkStores ==
    { [s EXCEPT !.links = l, !.contains = c, !.titles["a1"] = t]
      : s \in {u \in StoresOf(MaxChunks) :
                  \A i \in DOMAIN u.chunks :
                      /\ u.chunks[i].id = ChunkIds[i]
                      /\ u.chunks[i].text \in WalkTexts
                      /\ i > 1 => u.chunks[i].text = <<"Mammals">>},
        l \in SUBSET {<<"p1", "p2">>, <<"p2", "p1">>},
        c \in SUBSET {<<"p1", "a1">>, <<"p2", "a1">>},
        t \in {NoneStr, "mammals"} }
StartUrls == { <<"p1">>, <<"p1", "p2">>, <<"a1">> }
MaxDepths == 1..MaxDepth

\* the call has not returned yet
Pending == "pending"

WalkInit ==
    /\ store \in WalkStores
    /\ kr = NewKnowledgeRetriever
    /\ okr = NewOfflineKnowledgeRetriever
    /\ disk = NoDirectory
    /\ loaded = FALSE
    /\ ret = Call("__init__", <<>>, Returned(<<>>, 0))
    /\ walk = NoWalk
    /\ race = NoRace
    /\ user_context = NoSessions
    /\ recorded = NothingRecorded

\* graph_walk_search(query, start_urls, max_depth) sends its query.  A walk
\* keeps nothing from one call to the next: a behaviour follows one call.
StartWalk ==
    \E query \in Queries, start_urls \in StartUrls, max_depth \in MaxDepths :
        /\ walk.pc = "idle"
        /\ walk' = [pc |-> "expand", query |-> query, start_urls |-> start_urls,
                    max_depth |-> max_depth,
                    frontier |-> StartPaths(start_urls), paths |-> {}]
        /\ ret' = Call("graph_walk_search",
                       [query |-> query, start_urls |-> start_urls,
                        max_depth |-> max_depth],
                       Raised(Pending, 1))
        /\ UNCHANGED <<user_context, recorded, store, kr, okr, disk, loaded, race>>

\* the store extends every path of the frontier by one hop
WalkStep ==
    LET next == UNION {Extensions(store, path, walk.max_depth) : path \in walk.frontier}
    IN  /\ walk.pc = "expand"
        /\ next # {}
        /\ walk' = [walk EXCEPT !.frontier = next, !.paths = @ \cup next]
        /\ UNCHANGED <<user_context, recorded, store, kr, okr, disk, loaded, ret, race>>

\* no path can be extended: the rows come back and the call returns
WalkReturn ==
    LET next == UNION {Extensions(store, path, walk.max_depth) : path \in walk.frontier}
    IN  /\ walk.pc = "expand"
        /\ next = {}
        /\ walk' = [walk EXCEPT !.pc = "done"]
        /\ ret' = Call("graph_walk_search", ret.args,
                       Returned(walk_results(store, walk.paths, walk.query), 1))
        /\ UNCHANGED <<user_context, recorded, store, kr, okr, disk, loaded, race>>

WalkNext ==
    \/ StartWalk
    \/ WalkStep
    \/ WalkReturn

WalkSpec == WalkInit /\ [][WalkNext]_vars

\* the store keeps working on a query it has received
WalkLiveSpec == WalkSpec /\ WF_vars(WalkStep) /\ WF_vars(WalkReturn)

(* ------- build_vector_index and semantic_search, statement by statement - *)

\* Two threads share the KnowledgeRetriever kr: the builder runs
\* build_vector_index, the reader semantic_search.  A step is one statement
\* that reads or writes an attribute of the retriever; the retriever holds no
\* lock, so the steps of the two threads interleave freely.

\* lines 48-76: the chunks are fetched and split; an empty corpus returns
BuildFetch ==
    LET splits == SplitsOf(store.chunks)
    IN  /\ race.builder.pc \in {"idle", "done"}
        /\ race' = [race EXCEPT !.builder =
                        IF splits = <<>> THEN [pc |-> "done"]
                        ELSE [pc |-> "fetched", splits |-> splits]]
        /\ UNCHANGED <<user_context, recorded, store, kr, okr, disk, loaded, ret, walk>>

\* line 85: self.faiss_index = faiss.IndexFlatIP(dimension), an empty index
BuildAllocate ==
    /\ race.builder.pc = "fetched"
    /\ kr' = [kr EXCEPT !.faiss_index = IndexFlatIP(<<>>)]
    /\ race' = [race EXCEPT !.builder.pc = "allocated"]
    /\ UNCHANGED <<user_context, recorded, store, okr, disk, loaded, ret, walk>>

\* line 89: self.faiss_index.add(embeddings)
BuildAdd ==
    /\ race.builder.pc = "allocated"
    /\ kr' = [kr EXCEPT !.faiss_index =
                IndexFlatIP([i \in DOMAIN race.builder.splits |->
                                encode(kr.embedder, race.builder.splits[i].text)])]
    /\ race' = [race EXCEPT !.builder.pc = "added"]
    /\ UNCHANGED <<user_context, recorded, store, okr, disk, loaded, ret, walk>>

\* lines 92-93: both dictionaries are replaced by empty ones
BuildClear ==
    /\ race.builder.pc = "added"
    /\ kr' = [kr EXCEPT !.chunk_id_to_index = <<>>, !.index_to_chunk_id = <<>>]
    /\ race' = [race EXCEPT !.builder = [pc |-> "mapping", splits |-> @.splits, idx |-> 0]]
    /\ UNCHANGED <<user_context, recorded, store, okr, disk, loaded, ret, walk>>

\* lines 95-100: one turn of the loop, the entry of split idx
BuildMap ==
    /\ race.builder.pc = "mapping"
    /\ LET idx == race.builder.idx
           done == SubSeq(race.builder.splits, 1, idx + 1)
       IN  /\ kr' = [kr EXCEPT !.index_to_chunk_id = IndexToChunkId(done),
                               !.chunk_id_to_index = ChunkIdToIndex(done)]
           /\ race' = [race EXCEPT !.builder =
                          IF idx + 1 = Len(@.splits) THEN [pc |-> "done"]
                          ELSE [@ EXCEPT !.idx = idx + 1]]
    /\ UNCHANGED <<user_context, recorded, store, okr, disk, loaded, ret, walk>>

\* lines 106-107: the test of self.faiss_index
ReadCheck ==
    \E query \in Queries, top_k \in TopKs :
        /\ race.reader.pc \in {"idle", "done"}
        /\ IF kr.faiss_index = None
           THEN /\ race' = [race EXCEPT !.reader = [pc |-> "done"]]
                /\ ret' = Call("semantic_search",
                               [query |-> query, top_k |-> top_k, index |-> None,
                                mapping |-> <<>>],
                               Raised(IndexNotBuilt, 0))
           ELSE /\ race' = [race EXCEPT !.reader =
                               [pc |-> "checked", query |-> query, top_k |-> top_k]]
                /\ ret' = Call("semantic_search",
                               [query |-> query, top_k |-> top_k],
                               Raised(Pending, 0))
        /\ UNCHANGED <<user_context, recorded, store, kr, okr, disk, loaded, walk>>

\* line 114: self.faiss_index.search(...), on the index as it is now
ReadSearch ==
    /\ race.reader.pc = "checked"
    /\ race' = [race EXCEPT !.reader =
                    [pc |-> "searched", query |-> @.query, top_k |-> @.top_k,
                     index |-> kr.faiss_index]]
    /\ UNCHANGED <<user_context, recorded, store, kr, okr, disk, loaded, ret, walk>>

\* lines 117-152: the hits are looked up in self.index_to_chunk_id as it is
\* now, the chunks are fetched and the call returns.  ret.args keeps the
\* index and the mapping the call has read.
ReadLookup ==
    /\ race.reader.pc = "searched"
    /\ race' = [race EXCEPT !.reader = [pc |-> "done"]]
    /\ ret' = Call("semantic_search",
                   [query |-> race.reader.query, top_k |-> race.reader.top_k,
                    index |-> race.reader.index,
                    mapping |-> kr.index_to_chunk_id],
                   semantic_search([kr EXCEPT !.faiss_index = race.reader.index],
                                   store, race.reader.query, race.reader.top_k))
    /\ UNCHANGED <<user_context, recorded, store, kr, okr, disk, loaded, walk>>

RaceNext ==
    \/ BuildFetch
    \/ BuildAllocate
    \/ BuildAdd
    \/ BuildClear
    \/ BuildMap
    \/ ReadCheck
    \/ ReadSearch
    \/ ReadLookup

RaceSpec == Init /\ [][RaceNext]_vars

(* ------------- retrieval over a partially unavailable store ----------- *)

\* stores whose first page contains no, one or six assets, and on which the
\* queries of at most one kind fail
OutageStores ==
    { [s EXCEPT !.contains = c, !.down = d]
      : s \in {u \in StoresOf(MaxChunks) :
                  \A i \in DOMAIN u.chunks :
                      u.chunks[i].id = ChunkIds[i] /\ u.chunks[i].text \in WalkTexts},
        c \in { {}, {<<"p1", "a1">>}, {<<"p1", a>> : a \in Assets} },
        d \in {{}} \cup {{kind} : kind \in QueryKinds} }

OutageInit ==
    /\ store \in OutageStores
    /\ kr = NewKnowledgeRetriever
    /\ okr = NewOfflineKnowledgeRetriever
    /\ disk = NoDirectory
    /\ loaded = FALSE
    /\ ret = Call("__init__", <<>>, Returned(<<>>, 0))
    /\ walk = NoWalk
    /\ race = NoRace
    /\ user_context = NoSessions
    /\ recorded = NothingRecorded

OutageNext ==
    \/ BuildVectorIndex
    \/ SemanticSearch
    \/ GraphWalkSearch
    \/ MultimodalSearch
    \/ HybridSearch

OutageSpec == OutageInit /\ [][OutageNext]_vars

(* ------------------------- searches run again -------------------------- *)

\* how a call ended
Outcome(r) == [raised |-> r.raised, value |-> r.value]

\* semantic_search is called again with the arguments of the call before;
\* ret.args keeps how the call before ended and the retriever it left
SemanticSearchAgain ==
    /\ ret.op = "semantic_search"
    /\ ret' = Call("semantic_search",
                   [query |-> ret.args.query, top_k |-> ret.args.top_k,
                    first |-> Outcome(ret), before |-> kr],
                   semantic_search(kr, store, ret.args.query, ret.args.top_k))
    /\ kr' = after_search(kr, ret.args.query)
    /\ UNCHANGED <<user_context, recorded, store, okr, disk, loaded, walk, race>>

\* the offline search is called again with the arguments of the call before
OfflineSearchAgain ==
    /\ ret.op = "offline_search"
    /\ LET res == offline_search(okr, disk, ret.args.query, ret.args.top_k)
       IN  /\ disk' = res.disk
           /\ ret' = Call("offline_search",
                          [query |-> ret.args.query, top_k |-> ret.args.top_k,
                           ready |-> loaded, first |-> Outcome(ret),
                           before |-> okr],
                          [raised |-> res.raised, value |-> res.value,
                           runs |-> res.runs, open |-> res.open])
    /\ okr' = after_search(okr, ret.args.query)
    /\ UNCHANGED <<user_context, recorded, store, kr, loaded, walk, race>>

\* stores that answer every query
RepeatStores == {s \in OutageStores : s.down = {} /\ s.contains = {<<"p1", "a1">>}}

RepeatInit ==
    /\ store \in RepeatStores
    /\ kr = NewKnowledgeRetriever
    /\ okr = NewOfflineKnowledgeRetriever
    /\ disk = NoDirectory
    /\ loaded = FALSE
    /\ ret = Call("__init__", <<>>, Returned(<<>>, 0))
    /\ walk = NoWalk
    /\ race = NoRace
    /\ user_context = NoSessions
    /\ recorded = NothingRecorded

RepeatNext ==
    \/ BuildVectorIndex
    \/ SemanticSearch
    \/ SemanticSearchAgain
    \/ LoadFromOnlineRetriever
    \/ SaveOffline
    \/ LoadOffline
    \/ OfflineSearch
    \/ OfflineSearchAgain

RepeatSpec == RepeatInit /\ [][RepeatNext]_vars

(* ----------------------- chunks without a source ---------------------- *)

\* stores of one or two of three chunks: c1 has a page, c2 an asset, c3
\* neither
OrphanStores ==
    UNION {
        { [chunks |-> [i \in 1..n |->
                         [id |-> s[i], text |-> t[i], modality |-> "text"]],
           contains |-> {<<"p1", "a1">>},
           links |-> {},
           titles |-> [u \in Pages \cup Assets |-> NoneStr],
           down |-> {}]
          : s \in {u \in [1..n -> {"c1", "c2", "c3"}] : NoRepeat(u)},
            t \in [1..n -> WalkTexts] }
        : n \in 1..MaxChunks }

OrphanInit ==
    /\ store \in OrphanStores
    /\ kr = NewKnowledgeRetriever
    /\ okr = NewOfflineKnowledgeRetriever
    /\ disk = NoDirectory
    /\ loaded = FALSE
    /\ ret = Call("__init__", <<>>, Returned(<<>>, 0))
    /\ walk = NoWalk
    /\ race = NoRace
    /\ user_context = NoSessions
    /\ recorded = NothingRecorded

OrphanNext ==
    \/ BuildVectorIndex
    \/ SemanticSearch
    \/ MultimodalSearch
    \/ HybridSearch
    \/ LoadFromOnlineRetriever
    \/ SaveOffline
    \/ OfflineSearch

OrphanSpec == OrphanInit /\ [][OrphanNext]_vars

(* -------------------------- keyword extraction ------------------------- *)

\* the tokens a query is made of
QueryTokens == {"mammals", "Mammals", "cats", "Cats", "dogs", "are", "?", WS}
MaxQueryLen == 3
\* every query of 1..MaxQueryLen tokens
TermQueries == UNION {[1..n -> QueryTokens] : n \in 1..MaxQueryLen}

TermInit ==
    /\ store \in StoresOf(0)
    /\ kr = NewKnowledgeRetriever
    /\ okr = NewOfflineKnowledgeRetriever
    /\ disk = NoDirectory
    /\ loaded = FALSE
    /\ ret = Call("__init__", <<>>, Returned(<<>>, 0))
    /\ walk = NoWalk
    /\ race = NoRace
    /\ user_context = NoSessions
    /\ recorded = NothingRecorded

\* lines 192-193 of graph_walk_search on a query
ExtractKeyword ==
    \E query \in TermQueries :
        /\ ret' = Call("main_term", [query |-> query],
                       Returned(main_term(query), 0))
        /\ UNCHANGED <<user_context, recorded, store, kr, okr, disk, loaded, walk, race>>

TermSpec == TermInit /\ [][ExtractKeyword]_vars

ConversationNext ==
    \/ UpdateConversationContext
    \/ ClearConversation
    \/ GetConversationHistory

\* a service whose store is empty; only the conversations move
ConversationSpec == TermInit /\ [][ConversationNext]_vars

(* ------------------------------- claims -------------------------------- *)

HybridReturned == ret.op = "hybrid_search" /\ ret.raised = NoError

\* the two lists a returned hybrid_search fused: the retriever and the store
\* are as they were during the call
SemanticResults == semantic_search(kr, store, ret.args.query, ret.args.top_k * 2).value
GraphResults == graph_walk_search(store, ret.args.query).value

IdsOf(results) == {results[i].chunk_id : i \in DOMAIN results}
ScoresOf(results, c) ==
    {results[i].score : i \in {j \in DOMAIN results : results[j].chunk_id = c}}
\* the score of a chunk in a result list, 0 if the chunk is absent
ScoreOrZero(results, c) ==
    IF c \in IdsOf(results) THEN ScoresOf(results, c) ELSE {0}

RECURSIVE TotalScore(_, _)
TotalScore(results, c) ==
    IF results = <<>> THEN 0
    ELSE (IF Head(results).chunk_id = c THEN Head(results).score ELSE 0)
         + TotalScore(Tail(results), c)

IdRank(c) == CHOOSE i \in DOMAIN ChunkIds : ChunkIds[i] = c

\* C1: every result of hybrid_search scores semantic_weight * s +
\* graph_weight * g, s and g the chunk's score in the semantic and in the
\* graph results (0 where the chunk is absent).
C1_FusionScore ==
    HybridReturned =>
        \A i \in DOMAIN ret.value :
            \E s \in ScoreOrZero(SemanticResults, ret.value[i].chunk_id),
               g \in ScoreOrZero(GraphResults, ret.value[i].chunk_id) :
                ret.value[i].score =
                    ret.args.semantic_weight * s + ret.args.graph_weight * g

\* C2: the results of hybrid_search are in descending order of combined
\* score, and results of equal score are in chunk_id order.
C2_TieBreakByChunkId ==
    HybridReturned =>
        \A i, j \in DOMAIN ret.value :
            i < j =>
                \/ ret.value[i].score > ret.value[j].score
                \/ /\ ret.value[i].score = ret.value[j].score
                   /\ IdRank(ret.value[i].chunk_id) < IdRank(ret.value[j].chunk_id)

\* the place of a chunk's first entry in the semantic results followed by the
\* graph results
FirstSeen(c) ==
    LET both == SemanticResults \o GraphResults
    IN  CHOOSE i \in DOMAIN both :
            both[i].chunk_id = c /\ \A j \in 1..(i - 1) : both[j].chunk_id # c

\* C2, amended: the results of hybrid_search are in descending order of
\* combined score, and results of equal score are in the order in which their
\* chunks first appear in the semantic results followed by the graph results.
C2_TieBreakByFirstSeen ==
    HybridReturned =>
        \A i, j \in DOMAIN ret.value :
            i < j =>
                \/ ret.value[i].score > ret.value[j].score
                \/ /\ ret.value[i].score = ret.value[j].score
                   /\ FirstSeen(ret.value[i].chunk_id) < FirstSeen(ret.value[j].chunk_id)

\* two results of equal score are returned against the order of their ids
C2_Witness ==
    /\ HybridReturned
    /\ \E i, j \in DOMAIN ret.value :
          /\ i < j
          /\ ret.value[i].score = ret.value[j].score
          /\ IdRank(ret.value[i].chunk_id) > IdRank(ret.value[j].chunk_id)

\* C3: no chunk_id appears twice in the list hybrid_search returns.
C3_MergedOnce ==
    HybridReturned =>
        \A i, j \in DOMAIN ret.value :
            i # j => ret.value[i].chunk_id # ret.value[j].chunk_id

\* a chunk found by both searches, or twice by the semantic search, is in
\* the returned list
C3_Witness ==
    /\ HybridReturned
    /\ \E i \in DOMAIN ret.value :
          LET c == ret.value[i].chunk_id
          IN  /\ c \in IdsOf(SemanticResults) \cap IdsOf(GraphResults)
              /\ Cardinality({j \in DOMAIN SemanticResults :
                                SemanticResults[j].chunk_id = c}) > 1

\* C4: hybrid_search returns min(top_k, number of distinct chunk ids found)
\* results, and no chunk left out has a greater combined score than a
\* returned one.
C4_TopK ==
    HybridReturned =>
        LET found == IdsOf(SemanticResults) \cup IdsOf(GraphResults)
            combined(c) ==
                ret.args.semantic_weight * TotalScore(SemanticResults, c)
                + ret.args.graph_weight * TotalScore(GraphResults, c)
        IN  /\ Len(ret.value) =
                 IF ret.args.top_k < Cardinality(found)
                 THEN ret.args.top_k ELSE Cardinality(found)
            /\ \A c \in found \ IdsOf(ret.value) :
                  \A i \in DOMAIN ret.value : combined(c) <= ret.value[i].score

\* a chunk with a lower score was cut off
C4_Witness ==
    /\ HybridReturned
    /\ Len(ret.value) = ret.args.top_k
    /\ \E c \in (IdsOf(SemanticResults) \cup IdsOf(GraphResults)) \ IdsOf(ret.value) :
          \E i \in DOMAIN ret.value :
              ret.args.semantic_weight * TotalScore(SemanticResults, c)
              + ret.args.graph_weight * TotalScore(GraphResults, c)
                < ret.value[i].score

NotBuiltOutcome(e) == ret.raised = e /\ ret.value = <<>> /\ ret.runs = 0

\* C5: a vector search before the index is built or loaded fails as not
\* built, returns no list and issues no query to the backing store.
C5_IndexNotBuilt ==
    /\ ( /\ ret.op \in {"semantic_search", "multimodal_search", "hybrid_search"}
         /\ kr.faiss_index = None )
       => NotBuiltOutcome(IndexNotBuilt)
    /\ (ret.op = "offline_search" /\ ~ret.args.ready)
       => NotBuiltOutcome(NotLoaded)

C7_EmptyCorpus ==
    (ret.op = "build_vector_index" /\ SplitsOf(store.chunks) = <<>>)
        => ret.raised # NoError

\* the number of splits the index file holds (none when it is missing) and
\* the number the mapping file lists
IndexFileSplits == IF disk.faiss_index_bin = None THEN 0 ELSE ntotal(disk.faiss_index_bin)
MappingFileSplits == Cardinality(DOMAIN disk.mappings_json.index_to_chunk_id)

\* C8: load_offline fails on a directory whose index file and mapping file
\* disagree on the number of splits.
C8_CorruptIndex ==
    ( /\ ret.op = "load_offline"
      /\ disk.exists
      /\ disk.mappings_json # None
      /\ IndexFileSplits # MappingFileSplits )
        => ret.raised # NoError

Loaded(o) == <<o.embedder, o.faiss_index, o.index_to_chunk_id, o.chunk_id_to_index>>

\* C9: a load_offline that raises leaves embedder, faiss_index,
\* index_to_chunk_id and chunk_id_to_index as they were.
C9_FailsClosed ==
    (ret.op = "load_offline" /\ ret.raised # NoError)
        => Loaded(okr) = Loaded(ret.args.before)

\* the directory written by exporting the online retriever, and a fresh
\* offline retriever after loading it
Exported ==
    save_offline(
        load_from_online_retriever(NewOfflineKnowledgeRetriever, kr, store),
        NoDirectory)
Reloaded == load_offline(NewOfflineKnowledgeRetriever, Exported).okr

Pairs(results) ==
    [i \in DOMAIN results |-> <<results[i].chunk_id, results[i].score>>]

\* C10: on a built index that was exported and reloaded, the offline search
\* ends as semantic_search does on the original, with the same (chunk_id,
\* score) sequence, for every query and top_k.
C10_RoundTrip ==
    ( /\ ret.op = "offline_search"
      /\ kr.faiss_index # None
      /\ okr = Reloaded
      /\ disk = Exported )
        => LET sem == semantic_search(kr, store, ret.args.query, ret.args.top_k)
           IN  /\ ret.raised = sem.raised
               /\ Pairs(ret.value) = Pairs(sem.value)

(* ------------------------ claims: seeded graph walk -------------------- *)

WalkReturned ==
    walk.pc = "done" /\ ret.op = "graph_walk_search" /\ ret.raised = NoError

\* the two pages link to each other
Cyclic(st) == {<<"p1", "p2">>, <<"p2", "p1">>} \subseteq st.links

\* C11: a seeded graph_walk_search that has started returns, on every source
\* graph, cyclic ones included, and for every max_depth >= 1.
C11_Terminates == (walk.pc = "expand") ~> (walk.pc = "done")

\* a walk of the greatest depth has returned on a graph with a cycle through
\* its seed
C11_Witness ==
    /\ WalkReturned
    /\ Cyclic(store)
    /\ ret.args.start_urls = <<"p1">>
    /\ ret.args.max_depth = MaxDepth
    /\ ret.value # <<>>

\* the depth a result's score stands for: score = 1 / (depth + 1)
DepthOf(chunk) == CHOOSE d \in 0..(MaxDepth + 1) : depth_score(d) = chunk.score

\* a LINKS_TO or CONTAINS relationship joins u and v, in either direction
Linked(st, u, v) ==
    \E r \in Rels(st) : (r.from = u /\ r.to = v) \/ (r.from = v /\ r.to = u)

\* C12: every result of a seeded walk has a depth d <= max_depth and a
\* context_path of d + 1 URLs that starts at a seed, ends at the result's
\* source_url and follows LINKS_TO/CONTAINS relationships in either direction.
C12_WithinMaxDepth ==
    WalkReturned =>
        \A i \in DOMAIN ret.value :
            LET chunk == ret.value[i]
                d == DepthOf(chunk)
                path == chunk.context_path
            IN  /\ d <= ret.args.max_depth
                /\ Len(path) = d + 1
                /\ \E k \in DOMAIN ret.args.start_urls : ret.args.start_urls[k] = path[1]
                /\ path[Len(path)] = chunk.source_url
                /\ \A k \in 1..d : Linked(store, path[k], path[k + 1])

\* a result lies exactly max_depth hops from the seed on a graph that has a
\* longer path from it
C12_Witness ==
    /\ WalkReturned
    /\ Cyclic(store)
    /\ ret.args.max_depth = 1
    /\ \E i \in DOMAIN ret.value : DepthOf(ret.value[i]) = 1

\* the sources a walk reported, each with the depths it was reported at
Reported == {<<ret.value[i].source_url, DepthOf(ret.value[i])>> : i \in DOMAIN ret.value}

\* C13: a source reachable by paths of several lengths is reported at one
\* depth only, its shallowest; with PageA -> PageB -> PageA, seed PageA and
\* the greatest max_depth the walk reports PageA at depth 0 and PageB at
\* depth 1 and nothing else.
C13_ShallowestOnly ==
    WalkReturned =>
        /\ \A i, j \in DOMAIN ret.value :
              ret.value[i].source_url = ret.value[j].source_url
                  => DepthOf(ret.value[i]) = DepthOf(ret.value[j])
        /\ (/\ store.links = {<<"p1", "p2">>, <<"p2", "p1">>}
            /\ store.contains = {}
            /\ ret.args.start_urls = <<"p1">>
            /\ ret.args.max_depth = MaxDepth)
              => Reported = {<<"p1", 0>>, <<"p2", 1>>}

\* the nodes within n hops of the nodes S
RECURSIVE Within(_, _, _)
Within(st, S, n) ==
    IF n = 0 THEN S
    ELSE LET near == Within(st, S, n - 1)
         IN  near \cup {u \in Pages \cup Assets : \E v \in near : Linked(st, u, v)}

\* the hop count from the nearest of the seeds to u
Distance(st, start_urls, u) ==
    LET seeds == {start_urls[k] : k \in DOMAIN start_urls} \cap Pages
    IN  CHOOSE n \in 0..Cardinality(Pages \cup Assets) :
            /\ u \in Within(st, seeds, n)
            /\ \A m \in 0..(n - 1) : u \notin Within(st, seeds, m)

\* C14: every result of a seeded walk has score 1 / (depth + 1), depth being
\* the hop count from the nearest seed to the result's source; a chunk owned
\* by a seed page has depth 0 and score 1.0.
C14_ScoreByNearestSeed ==
    WalkReturned =>
        \A i \in DOMAIN ret.value :
            ret.value[i].score =
                depth_score(Distance(store, ret.args.start_urls, ret.value[i].source_url))

(* --------------------- claims: build against search -------------------- *)

\* a semantic_search that ran beside build_vector_index has got past the
\* test of faiss_index and has ended
RacedSearch ==
    /\ ret.op = "semantic_search"
    /\ "index" \in DOMAIN ret.args
    /\ ret.raised # IndexNotBuilt

\* C15: a semantic_search that runs while build_vector_index runs either
\* fails as not built, or reads an index and an index_to_chunk_id of the
\* same size, and every split index the index returns (top_k being at most
\* the size of the index) is a key of the mapping.
C15_NoTornRead ==
    RacedSearch =>
        /\ ntotal(ret.args.index) = Cardinality(DOMAIN ret.args.mapping)
        /\ ret.args.top_k <= ntotal(ret.args.index) => ret.raised # KeyError

(* ---------------- claims: enrichment and store failures ---------------- *)

MultimodalCalled == ret.op = "multimodal_search"

\* what semantic_search returns for the arguments of the last call
SemanticAgain == semantic_search(kr, store, ret.args.query, ret.args.top_k)

\* a result list without the related assets
Unenriched(results) ==
    [i \in DOMAIN results |-> [results[i] EXCEPT !.related_assets = <<>>]]

\* C16: when the lookup of the related assets fails, multimodal_search still
\* returns the whole semantic result list, without related assets on the
\* results whose lookup failed, and raises no error.
C16_BestEffort ==
    (MultimodalCalled /\ SemanticAgain.raised = NoError /\ Down(store, "assets"))
        => /\ ret.raised = NoError
           /\ ret.value = Unenriched(SemanticAgain.value)

\* the assets a page contains
ContainedBy(st, url) == {e[2] : e \in {f \in st.contains : f[1] = url}}

\* C17: multimodal_search returns the results of semantic_search with the
\* same chunk ids, order and scores and changes nothing but related_assets,
\* which is set only on page results, only when include_assets is true, and
\* holds at most 5 assets that the page contains.
C17_EnrichmentOnly ==
    (MultimodalCalled /\ ret.raised = NoError) =>
        /\ Unenriched(ret.value) = Unenriched(SemanticAgain.value)
        /\ \A i \in DOMAIN ret.value :
              LET chunk == ret.value[i]
              IN  /\ chunk.related_assets # <<>>
                        => chunk.source_type = "page" /\ ret.args.include_assets
                  /\ Len(chunk.related_assets) <= 5
                  /\ \A k \in DOMAIN chunk.related_assets :
                        chunk.related_assets[k].url \in ContainedBy(store, chunk.source_url)

\* a page that contains six assets is returned with five of them
C17_Witness ==
    /\ MultimodalCalled
    /\ ret.raised = NoError
    /\ \E i \in DOMAIN ret.value :
          /\ Len(ret.value[i].related_assets) = 5
          /\ Cardinality(ContainedBy(store, ret.value[i].source_url)) > 5

\* the kinds of query a primary retrieval operation sends
Needs(op) ==
    CASE op = "build_vector_index" -> {"chunks"}
      [] op = "semantic_search" -> {"details"}
      [] op = "graph_walk_search" -> {"walk"}
      [] op = "hybrid_search" -> {"details", "walk"}
      [] OTHER -> {}

\* C18: a store failure in build_vector_index, semantic_search,
\* graph_walk_search or either half of hybrid_search surfaces as an error:
\* no such call returns while a query it needs fails, a failed call hands
\* back no list and has sent each of its queries at most once, and the two
\* calls that always query the store always fail.
C18_StoreFailureSurfaces ==
    /\ ret.raised = NoError => Needs(ret.op) \cap store.down = {}
    /\ ret.raised = ServiceUnavailable /\ Needs(ret.op) # {}
          => /\ ret.value = <<>>
             /\ ret.runs <= Cardinality(Needs(ret.op))
             /\ Needs(ret.op) \cap store.down # {}
    /\ (ret.op \in {"build_vector_index", "graph_walk_search"}
            /\ Needs(ret.op) \cap store.down # {})
          => ret.raised = ServiceUnavailable

\* the graph half of a hybrid_search failed after the semantic half had
\* succeeded
C18_Witness ==
    /\ ret.op = "hybrid_search"
    /\ ret.raised = ServiceUnavailable
    /\ ret.runs = 2

(* ------------------- claims: duplicates and repetition ----------------- *)

\* C19: the list search(query, mode, ...) returns holds no two entries with
\* the same chunk_id, in every mode.
C19_FacadeDeduplicated ==
    (ret.op = "search" /\ ret.raised = NoError) =>
        \A i, j \in DOMAIN ret.value :
            i # j => ret.value[i].chunk_id # ret.value[j].chunk_id

SearchedAgain ==
    ret.op \in {"semantic_search", "offline_search"} /\ "first" \in DOMAIN ret.args

ContainsIgnoreCase(t, term) ==
    CONTAINS([i \in DOMAIN t |-> lower(t[i])], [k \in DOMAIN term |-> lower(term[k])])

\* C21: every result of a seeded walk is a chunk: its chunk_id and its text
\* are not null, and its text or the title of its source contains the
\* extracted keyword; a reached source without a matching chunk adds no
\* entry to the list.
C21_ActualChunks ==
    WalkReturned =>
        \A i \in DOMAIN ret.value :
            LET chunk == ret.value[i]
                term == main_term(ret.args.query)
            IN  /\ chunk.chunk_id # NoneStr
                /\ chunk.text # NoneList
                /\ \/ ContainsIgnoreCase(chunk.text, term)
                   \/ /\ chunk.source_title # NoneStr
                      /\ ContainsIgnoreCase(<<chunk.source_title>>, term)

\* C22: the global scan returns a chunk if and only if its text contains the
\* extracted keyword when letter case is ignored.
C22_CaseInsensitiveScan ==
    (ret.op = "graph_walk_search" /\ ret.raised = NoError) =>
        \A i \in DOMAIN store.chunks :
            store.chunks[i].id \in IdsOf(ret.value)
                <=> ContainsIgnoreCase(store.chunks[i].text,
                                       main_term(ret.args.query))

\* the places of the word tokens in a query
WordsAt(query) == {i \in DOMAIN query : IsWord(query[i])}

\* C23: the match term is the first of the longest word tokens of the
\* query, in lower case as the tokens are taken from query.lower(); a query
\* without a word token is its own match term.
C23_LongestFirst ==
    ret.op = "main_term" =>
        LET query == ret.args.query
            term == ret.value
        IN  IF WordsAt(query) = {} THEN term = query
            ELSE \E i \in WordsAt(query) :
                    /\ term = <<lower(query[i])>>
                    /\ \A j \in WordsAt(query) :
                          /\ len(query[j]) <= len(query[i])
                          /\ j < i => len(query[j]) < len(query[i])

\* two different words share the greatest length and the earlier one was
\* picked
C23_Witness ==
    /\ ret.op = "main_term"
    /\ \E i, j \in WordsAt(ret.args.query) :
          /\ i < j
          /\ len(ret.args.query[i]) = len(ret.args.query[j])
          /\ lower(ret.args.query[i]) # lower(ret.args.query[j])
          /\ \A k \in WordsAt(ret.args.query) :
                len(ret.args.query[k]) <= len(ret.args.query[i])
          /\ ret.value = <<lower(ret.args.query[i])>>

(* ----------------------- claims: the two mappings ---------------------- *)

\* the split indices a list holds
Listing(l) == {l[k] : k \in DOMAIN l}

\* the two dictionaries of a retriever describe its index: one chunk id for
\* each of the n vectors, and chunk_id_to_index the inverse
Consistent(r) ==
    r.faiss_index # None =>
        /\ DOMAIN r.index_to_chunk_id = 0..(ntotal(r.faiss_index) - 1)
        /\ \A c \in DOMAIN r.chunk_id_to_index :
              /\ r.chunk_id_to_index[c] # <<>>
              /\ \A i \in Listing(r.chunk_id_to_index[c]) :
                    i \in DOMAIN r.index_to_chunk_id /\ r.index_to_chunk_id[i] = c
        /\ \A i \in DOMAIN r.index_to_chunk_id :
              /\ r.index_to_chunk_id[i] \in DOMAIN r.chunk_id_to_index
              /\ i \in Listing(r.chunk_id_to_index[r.index_to_chunk_id[i]])

\* C24: whenever a retriever, online or offline, has its faiss_index set,
\* index_to_chunk_id has exactly the keys 0..n-1, n the number of vectors,
\* and chunk_id_to_index is its inverse, no chunk id with an empty list.
C24_DoubleMapping == Consistent(kr) /\ Consistent(okr)

(* -------------------------- claims: provenance ------------------------- *)

\* C25: no result of semantic_search, of the modes built on it or of the
\* offline search lacks a source_url, and a result has source_type "page"
\* exactly when a Page owns its chunk and "asset" exactly when an Asset does.
C25_ProvenanceRequired ==
    ( /\ ret.op \in {"semantic_search", "multimodal_search", "hybrid_search",
                     "offline_search"}
      /\ ret.raised = NoError )
        => \A i \in DOMAIN ret.value :
              LET chunk == ret.value[i]
                  owner == OwnerOf(chunk.chunk_id)
              IN  /\ chunk.source_url # NoneStr
                  /\ chunk.source_type = "page" <=> owner \in Pages
                  /\ chunk.source_type = "asset" <=> owner \in Assets

(* ------------------ claims: sessions and connections ------------------- *)

\* C26: after semantic_search, graph_walk_search, multimodal_search, the
\* offline search or get_stats has returned or raised, no session and no
\* connection that the call opened is still open.
C26_AllReleased ==
    ret.op \in {"semantic_search", "graph_walk_search", "multimodal_search",
                "offline_search", "get_stats"}
        => ret.open = 0

(* ------------------- claims: more results than splits ------------------ *)

\* C27: semantic_search with a top_k greater than the number n of splits in
\* the built index raises nothing and returns the n splits' results (every
\* split's chunk being in the store), in descending order of score.
C27_MoreThanIndexed ==
    ( /\ ret.op = "semantic_search"
      /\ kr.faiss_index # None
      /\ ret.args.top_k > ntotal(kr.faiss_index) )
        => /\ ret.raised = NoError
           /\ Len(ret.value) = ntotal(kr.faiss_index)
           /\ \A i, j \in DOMAIN ret.value :
                 i < j => ret.value[i].score >= ret.value[j].score

(* ----------------- claims: the facade behind answer_query -------------- *)

\* the fields the later steps of answer_query read from a result
Exposed == {"chunk_id", "text", "score", "source_url"}

\* C28: for each of the four SearchMode names and a retriever that is ready
\* (the online one built, the offline one loaded), the retrieval step of
\* answer_query calls the operation of the mode with arguments it accepts,
\* so no TypeError and no AttributeError, and every entry of a list it
\* obtains has the fields chunk_id, text, score and source_url.
C28_Interchangeable ==
    ( /\ ret.op = "answer_query"
      /\ ret.args.search_mode \in SearchModeNames
      /\ \/ ret.args.retriever = "online" /\ kr.faiss_index # None
         \/ ret.args.retriever = "offline" /\ loaded )
        => /\ ret.raised \notin {TypeError, AttributeError}
           /\ ret.raised = NoError
                 => \A i \in DOMAIN ret.value : Exposed \subseteq DOMAIN ret.value[i]

(* --------------------------- claims: startup --------------------------- *)

\* C29: after startup, in every outcome of the Neo4j attempt and of the
\* offline fallback, if web_owl_rag is set then the retriever it holds has
\* a faiss_index, built or loaded.
C29_ReadyWhenServed ==
    (ret.op = "lifespan" /\ ret.value.web_owl_rag) =>
        /\ ret.value.retriever = "online" => kr.faiss_index # None
        /\ ret.value.retriever = "offline" => okr.faiss_index # None

(* ---------------------- claims: conversation context ------------------- *)

\* the entries recorded for a session since it was last cleared
SinceCleared(session_id) ==
    SubSeq(recorded[session_id].entries,
           recorded[session_id].cleared + 1,
           Len(recorded[session_id].entries))

\* C30: after any sequence of update_conversation_context and
\* clear_conversation calls, the history of every session holds at most 10
\* entries, and they are the most recent (up to 10) of the entries recorded
\* for the session since it was last cleared, in the order of recording.
\* The entries compared are those of the session alone, so an update for
\* another session that touched this history would break the equality.
C30_BoundedRecent ==
    \A session_id \in Sessions :
        LET history == get_conversation_history(user_context, session_id)
            since == SinceCleared(session_id)
        IN  /\ Len(history) <= HistoryLimit
            /\ Len(history) = IF Len(since) > HistoryLimit THEN HistoryLimit ELSE Len(since)
            /\ \A i \in 1..Len(history) :
                   history[i] = since[Len(since) - Len(history) + i]

\* a session that was cleared once records more than 10 entries while the
\* other session holds a history of its own
C30_Witness ==
    /\ ret.op = "update_conversation_context"
    /\ Len(SinceCleared(ret.args.session_id)) > HistoryLimit
    /\ recorded[ret.args.session_id].cleared > 0
    /\ \E other \in Sessions \ {ret.args.session_id} :
           Len(get_conversation_history(user_context, other)) > 1

====
